---- MODULE Spec2Model ----
(***************************************************************************)
(* Model of the Gerrit MCP adapter: the request layer of src/gerrit/api.py *)
(* (URL normalisation, request execution, diff reconstruction) and the     *)
(* tool entry points of src/mmcp/tools that delegate to it, the tools      *)
(* registered by src/mmcp/server.py and those of src/server_direct.py.     *)
(*                                                                         *)
(* A Python str is a sequence of one-character strings, so that split,     *)
(* startswith, replace and urllib.parse.quote are modelled by what they do *)
(* to the characters.                                                      *)
(***************************************************************************)
EXTENDS Integers, Sequences, FiniteSets, TLC

VARIABLES
    env,             \* os.environ: GERRIT_URL, GERRIT_USERNAME, GERRIT_API_TOKEN
    argv,            \* the command line of src/mmcp/server.py: --gerrit-url, --username, --api-token
    gerrit_session,  \* lifespan_context.get("gerrit_session"): TRUE when a session is there
    pc,              \* position of the tool invocation: "idle", "awaiting", "cancelling", "done"
    call,            \* the arguments of the current tool invocation
    requests,        \* what session.request was called with, in order
    task,            \* response_task: "none", "pending", "done", "failed", "cancelling", "cancelled"
    response,        \* what the transport answered the request with
    result,          \* the value the tool returned, or the exception it raised
    norm_base,       \* SpecNorm: the configured base URL
    norm_id,         \* SpecNorm: the change id placed in the URL
    norm_urls,       \* SpecNorm: the URL given, then each URL make_gerrit_request produced
    diff_in,         \* SpecDiff: the `content` list of the diff body
    diff_binary,     \* SpecDiff: the `binary` flag of the diff body
    diff_out,        \* SpecDiff: what get_file_diff of src/gerrit/api.py returned for it
    direct_out,      \* SpecDiff: what get_file_diff of src/server_direct.py returned for it
    api_calls,       \* the calls of API functions of src/gerrit/api.py made by the invocation, with what each returned
    made,            \* the calls of make_gerrit_request made by the invocation, as given, with how each ended
    walk,            \* SpecWalk: the loop of get_file_diff of src/server_direct.py, line by line
    life             \* SpecLife: the lifespan of src/mmcp/server.py and its session

vars == <<env, argv, gerrit_session, pc, call, requests, task, response, result,
          norm_base, norm_id, norm_urls, diff_in, diff_binary, diff_out, direct_out,
          api_calls, made, walk, life>>

-----------------------------------------------------------------------------
(* Bounds *)

\* longest change id, in characters, that the normalisation is checked on
MaxIdLen == 5
\* most sections in a diff body's `content` list
MaxSections == 3
\* most lines in one `ab`, `a` or `b` array
MaxLines == 2

-----------------------------------------------------------------------------
(* Python str operations on character sequences *)

\* s[n:]
Drop(s, n) == SubSeq(s, n + 1, Len(s))

\* s.startswith(p)
StartsWith(s, p) == Len(p) <= Len(s) /\ SubSeq(s, 1, Len(p)) = p

\* sub in s
Contains(s, sub) ==
    \E i \in 0..(Len(s) - Len(sub)) : SubSeq(s, i + 1, i + Len(sub)) = sub

\* s.lstrip(c)
RECURSIVE LStrip(_, _)
LStrip(s, c) == IF s # <<>> /\ s[1] = c THEN LStrip(Tail(s), c) ELSE s

\* s.split(c): the pieces between the occurrences of the character c
RECURSIVE SplitFrom(_, _, _)
SplitFrom(s, c, cur) ==
    IF s = <<>> THEN <<cur>>
    ELSE IF s[1] = c THEN <<cur>> \o SplitFrom(Tail(s), c, <<>>)
    ELSE SplitFrom(Tail(s), c, Append(cur, s[1]))

Split(s, c) == SplitFrom(s, c, <<>>)

\* sep.join(parts)
RECURSIVE Join(_, _)
Join(parts, sep) ==
    IF parts = <<>> THEN <<>>
    ELSE IF Len(parts) = 1 THEN parts[1]
    ELSE parts[1] \o sep \o Join(Tail(parts), sep)

\* s.replace(old, new): every non-overlapping occurrence, left to right
RECURSIVE Replace(_, _, _)
Replace(s, old, new) ==
    IF Len(s) < Len(old) THEN s
    ELSE IF SubSeq(s, 1, Len(old)) = old
         THEN new \o Replace(Drop(s, Len(old)), old, new)
         ELSE <<s[1]>> \o Replace(Tail(s), old, new)

\* list.index(x): the first position (from 1) of x, 0 when x is absent (ValueError)
IndexOf(parts, x) ==
    IF \E i \in 1..Len(parts) : parts[i] = x
    THEN CHOOSE i \in 1..Len(parts) :
            parts[i] = x /\ \A j \in 1..(i - 1) : parts[j] # x
    ELSE 0

Digits == {"0", "1", "2", "3", "4", "5", "6", "7", "8", "9"}

\* s.isdigit()
IsDigit(s) == s # <<>> /\ \A i \in 1..Len(s) : s[i] \in Digits

\* the characters urllib.parse.quote never escapes (letters, digits, "_.-~")
Unreserved ==
    Digits \cup {"_", ".", "-", "~"} \cup
    {"a", "b", "c", "d", "e", "f", "g", "h", "i", "j", "k", "l", "m",
     "n", "o", "p", "q", "r", "s", "t", "u", "v", "w", "x", "y", "z",
     "A", "B", "C", "D", "E", "F", "G", "H", "I", "J", "K", "L", "M",
     "N", "O", "P", "Q", "R", "S", "T", "U", "V", "W", "X", "Y", "Z"}

\* the escape of each other character the model uses: "%" and two hex digits
PercentCode(c) ==
    CASE c = "/" -> <<"%", "2", "F">>
      [] c = "%" -> <<"%", "2", "5">>
      [] c = ":" -> <<"%", "3", "A">>
      [] c = "?" -> <<"%", "3", "F">>
      [] c = " " -> <<"%", "2", "0">>
      [] c = "+" -> <<"%", "2", "B">>

\* quote(s, safe='')
RECURSIVE Quote(_)
Quote(s) ==
    IF s = <<>> THEN <<>>
    ELSE (IF s[1] \in Unreserved THEN <<s[1]>> ELSE PercentCode(s[1]))
         \o Quote(Tail(s))

-----------------------------------------------------------------------------
(* String constants *)

HttpG == <<"h", "t", "t", "p", ":", "/", "/", "g">>
Slash == <<"/">>
Tilde == <<"~">>
StrA == <<"a">>
StrASlash == <<"a", "/">>
SlashASlash == <<"/", "a", "/">>
StrChanges == <<"c", "h", "a", "n", "g", "e", "s">>
ChangesSlash == StrChanges \o Slash
SlashChangesSlash == Slash \o StrChanges \o Slash
SlashAChangesSlash == SlashASlash \o StrChanges \o Slash
StrDetail == <<"d", "e", "t", "a", "i", "l">>
StrRevisionsCurrent ==
    <<"r", "e", "v", "i", "s", "i", "o", "n", "s", "/",
      "c", "u", "r", "r", "e", "n", "t">>
StrCommit == <<"c", "o", "m", "m", "i", "t">>
StrRelated == <<"r", "e", "l", "a", "t", "e", "d">>
StrFiles == <<"f", "i", "l", "e", "s">>
StrDiff == <<"d", "i", "f", "f">>
StrDrafts == <<"d", "r", "a", "f", "t", "s">>
\* the query server_direct appends to the diff URL, written as one element:
\* it follows the last "/" and holds no character the normalisation looks for
DiffQuery == <<"?intraline=true&whitespace=ignore-all">>
StrReview == <<"r", "e", "v", "i", "e", "w">>

-----------------------------------------------------------------------------
(* make_gerrit_request: URL normalisation *)

\* mutant: the number after a single "~" is percent-encoded as well
EncodeChangeIdPartQuotesNumber(change_id_part) ==
    IF Contains(change_id_part, Tilde)
    THEN Join([i \in 1..Len(Split(change_id_part, "~")) |->
                  Quote(Split(change_id_part, "~")[i])], Tilde)
    ELSE IF ~IsDigit(change_id_part)
         THEN Quote(change_id_part)
         ELSE change_id_part

\* the change-id part of the path, encoded by its shape
EncodeChangeIdPart(change_id_part) ==
    IF Contains(change_id_part, Tilde)
    THEN LET parts == Split(change_id_part, "~") IN
         IF Len(parts) = 2
         THEN Quote(parts[1]) \o Tilde \o parts[2]
         ELSE Join([i \in 1..Len(parts) |-> Quote(parts[i])], Tilde)
    ELSE IF ~IsDigit(change_id_part)
         THEN Quote(change_id_part)
         ELSE change_id_part

\* "/a/" if "/a/changes/" in url else "/"
AuthPrefix(url) == IF Contains(url, SlashAChangesSlash) THEN SlashASlash ELSE Slash

\* mutant: the parts behind the change id are percent-encoded again
RemainingPathQuoted(path_parts_from_base, changes_index) ==
    Join([i \in 1..(Len(path_parts_from_base) - changes_index - 1) |->
             Quote(path_parts_from_base[changes_index + 1 + i])], Slash)

\* remaining_path: the parts behind the change id, joined as they are
RemainingPath(path_parts_from_base, changes_index) ==
    Join(SubSeq(path_parts_from_base, changes_index + 2,
                Len(path_parts_from_base)), Slash)

\* the URL rebuilt from the base, the prefix, the encoded change id and the rest
ReconstructUrl(url, gerrit_url) ==
    IF Contains(url, SlashChangesSlash)
    THEN IF StartsWith(url, gerrit_url)
         THEN LET relative_path == LStrip(Drop(url, Len(gerrit_url)), "/")
                  path_parts_from_base == Split(relative_path, "/")
                  changes_index == IndexOf(path_parts_from_base, StrChanges)
              IN  IF changes_index = 0
                  THEN url
                  ELSE IF changes_index < Len(path_parts_from_base)
                  THEN LET change_id_part == path_parts_from_base[changes_index + 1]
                           remaining_path ==
                               RemainingPath(path_parts_from_base, changes_index)
                           rebuilt == gerrit_url \o AuthPrefix(url) \o ChangesSlash
                                      \o EncodeChangeIdPart(change_id_part)
                       IN  IF remaining_path # <<>>
                           THEN rebuilt \o Slash \o remaining_path
                           ELSE rebuilt
                  ELSE url
         ELSE url
    ELSE IF gerrit_url # <<>> /\ StartsWith(url, gerrit_url)
            /\ ~Contains(url, SlashASlash)
         THEN LET relative_path == LStrip(Drop(url, Len(gerrit_url)), "/") IN
              IF ~StartsWith(relative_path, StrASlash)
              THEN gerrit_url \o SlashASlash \o relative_path
              ELSE url
         ELSE url

\* mutant: the final check is left out
EnsureAuthPrefixOmitted(processed_url) == processed_url

\* the final check: a /changes/ URL without /a/changes/ gets the /a/ inserted
EnsureAuthPrefix(processed_url) ==
    IF Contains(processed_url, SlashChangesSlash)
       /\ ~Contains(processed_url, SlashAChangesSlash)
    THEN Replace(processed_url, SlashChangesSlash, SlashAChangesSlash)
    ELSE processed_url

\* the URL make_gerrit_request hands to session.request for `url`
ProcessUrl(url, gerrit_url) == EnsureAuthPrefix(ReconstructUrl(url, gerrit_url))

-----------------------------------------------------------------------------
(* The URL each API function builds *)

CommitInfoUrl(gerrit_url, change_id) ==
    gerrit_url \o SlashAChangesSlash \o change_id \o Slash
    \o StrRevisionsCurrent \o Slash \o StrCommit

\* mutant: the URL of the change itself is requested
ChangeDetailUrlWithoutDetail(gerrit_url, change_id) ==
    gerrit_url \o SlashAChangesSlash \o change_id

ChangeDetailUrl(gerrit_url, change_id) ==
    gerrit_url \o SlashAChangesSlash \o change_id \o Slash \o StrDetail

CommitMessageUrl(gerrit_url, change_id) ==
    gerrit_url \o SlashChangesSlash \o change_id \o Slash
    \o StrRevisionsCurrent \o Slash \o StrCommit

RelatedChangesUrl(gerrit_url, change_id) ==
    gerrit_url \o SlashAChangesSlash \o change_id \o Slash
    \o StrRevisionsCurrent \o Slash \o StrRelated

FileListUrl(gerrit_url, change_id) ==
    gerrit_url \o SlashAChangesSlash \o change_id \o Slash
    \o StrRevisionsCurrent \o Slash \o StrFiles

FileDiffUrl(gerrit_url, change_id, file_path) ==
    gerrit_url \o SlashAChangesSlash \o change_id \o Slash
    \o StrRevisionsCurrent \o Slash \o StrFiles \o Slash
    \o Quote(file_path) \o Slash \o StrDiff

DraftsUrl(gerrit_url, change_id) ==
    gerrit_url \o SlashAChangesSlash \o change_id \o Slash
    \o StrRevisionsCurrent \o Slash \o StrDrafts

ReviewUrl(gerrit_url, change_id) ==
    gerrit_url \o SlashAChangesSlash \o change_id \o Slash
    \o StrRevisionsCurrent \o Slash \o StrReview

-----------------------------------------------------------------------------
(* Configuration: get_auth_credentials() reads the environment *)

EnvOf(url, username, token) ==
    [GERRIT_URL |-> url, GERRIT_USERNAME |-> username, GERRIT_API_TOKEN |-> token]

\* the environments the process may run in ("" and <<>>: the variable is unset)
Envs ==
    { EnvOf(HttpG, "user", "token"),
      EnvOf(HttpG \o Slash, "user", "token"),
      EnvOf(<<>>, "user", "token"),
      EnvOf(HttpG, "user", "") }

\* all([gerrit_url, username, api_token])
CredentialsPresent(e) ==
    e.GERRIT_URL # <<>> /\ e.GERRIT_USERNAME # "" /\ e.GERRIT_API_TOKEN # ""

\* the gerrit_url get_auth_credentials returns: a trailing "/" is cut
GetAuthUrl(e) ==
    IF e.GERRIT_URL # <<>> /\ e.GERRIT_URL[Len(e.GERRIT_URL)] = "/"
    THEN SubSeq(e.GERRIT_URL, 1, Len(e.GERRIT_URL) - 1)
    ELSE e.GERRIT_URL

-----------------------------------------------------------------------------
(* Values *)

\* Optional[int]
None == [isNone |-> TRUE, val |-> 0]
Some(n) == [isNone |-> FALSE, val |-> n]

\* json=None: the request carries no body
NoData == <<>>

\* an error payload: `wrapper` is the text the catching layer puts first,
\* `exc` the class of the exception (or "" when none was raised), `text` its message
ErrorResult(wrapper, exc, text) ==
    [error |-> [wrapper |-> wrapper, exc |-> exc, text |-> text]]

IsError(r) == "error" \in DOMAIN r

\* aiohttp.ClientSession objects: the one the lifespan created and one a
\* caller of the API functions made itself; NoSession where there is none
NoSession == "None"
Sessions == {"gerrit_session", "own_session"}

NoCall ==
    [entry |-> "tool", tool |-> "none", change_id |-> <<>>, file_path |-> <<>>,
     message |-> "", line |-> 0, code_review_label |-> 0,
     session |-> NoSession]

NoResult == [pending |-> TRUE]

\* no response has been received
NoResponse == [status |-> 0, text |-> <<>>]

\* an exception that left a function: its class and its message
Raise(exc, text) == [raised |-> [exc |-> exc, text |-> text]]

IsRaised(r) == "raised" \in DOMAIN r

-----------------------------------------------------------------------------
(* get_file_diff: the reconstruction of line changes *)

\* section.get(key, default)
Get(section, key, default) ==
    IF key \in DOMAIN section THEN section[key] ELSE default

LineRecords(type, lines, number) ==
    [i \in 1..Len(lines) |->
        [type |-> type, line_number |-> number[i], content |-> lines[i]]]

\* mutant: a removed line is numbered with the counter it has not yet passed
ProcessSectionRemovedAhead(section, current_line) ==
    LET ab == Get(section, "ab", <<>>)
        b == Get(section, "b", <<>>)
        a == Get(section, "a", <<>>)
        after_ab == current_line + Len(ab)
        after_b == after_ab + Len(b)
    IN  << LineRecords("common", ab, [i \in 1..Len(ab) |-> current_line + i - 1])
           \o LineRecords("added", b, [i \in 1..Len(b) |-> after_ab + i - 1])
           \o LineRecords("removed", a, [i \in 1..Len(a) |-> after_b]),
           after_b >>

\* one pass of the loop body over `section`, with current_line as it stands;
\* the result is the pair <<records appended, current_line afterwards>>
ProcessSection(section, current_line) ==
    LET ab == Get(section, "ab", <<>>)
        b == Get(section, "b", <<>>)
        a == Get(section, "a", <<>>)
        after_ab == current_line + Len(ab)
        after_b == after_ab + Len(b)
    IN  << LineRecords("common", ab, [i \in 1..Len(ab) |-> current_line + i - 1])
           \o LineRecords("added", b, [i \in 1..Len(b) |-> after_ab + i - 1])
           \o LineRecords("removed", a, [i \in 1..Len(a) |-> after_b - 1]),
           after_b >>

RECURSIVE LineChangesFrom(_, _)
LineChangesFrom(content, current_line) ==
    IF content = <<>> THEN <<>>
    ELSE LET step == ProcessSection(content[1], current_line) IN
         step[1] \o LineChangesFrom(Tail(content), step[2])

\* line_changes of get_file_diff for raw_diff.get('content', [])
LineChanges(content) == LineChangesFrom(content, 1)

\* mutant: the `binary` flag of the body is not looked at
FileDiffResultIgnoresBinary(file_path, raw_diff) ==
    [file_path |-> file_path, is_binary |-> FALSE,
     line_changes |-> LineChanges(Get(raw_diff, "content", <<>>))]

\* what get_file_diff returns for the decoded diff body raw_diff
FileDiffResult(file_path, raw_diff) ==
    IF Get(raw_diff, "binary", FALSE)
    THEN [file_path |-> file_path, is_binary |-> TRUE,
          content_type |-> Get(raw_diff, "content_type", "None"),
          line_changes |-> <<>>]
    ELSE [file_path |-> file_path, is_binary |-> FALSE,
          line_changes |-> LineChanges(Get(raw_diff, "content", <<>>))]

\* get_file_diff of src/server_direct.py: one pass of its loop body over
\* `block`; the keys are tested in the order ab, a, b, skip and the first one
\* present decides. The result is <<records, line_num_a, line_num_b>>.
DirectProcessBlock(block, line_num_a, line_num_b) ==
    IF "ab" \in DOMAIN block
    THEN << LineRecords("common", block.ab,
                        [i \in 1..Len(block.ab) |-> line_num_b + i]),
            line_num_a + Len(block.ab), line_num_b + Len(block.ab) >>
    ELSE IF "a" \in DOMAIN block
    THEN << LineRecords("removed", block.a,
                        [i \in 1..Len(block.a) |-> line_num_a + i]),
            line_num_a + Len(block.a), line_num_b >>
    ELSE IF "b" \in DOMAIN block
    THEN << LineRecords("added", block.b,
                        [i \in 1..Len(block.b) |-> line_num_b + i]),
            line_num_a, line_num_b + Len(block.b) >>
    ELSE IF "skip" \in DOMAIN block
    THEN << <<>>, line_num_a + block.skip, line_num_b + block.skip >>
    ELSE << <<>>, line_num_a, line_num_b >>

RECURSIVE DirectLineChangesFrom(_, _, _)
DirectLineChangesFrom(content_blocks, line_num_a, line_num_b) ==
    IF content_blocks = <<>> THEN <<>>
    ELSE LET step == DirectProcessBlock(content_blocks[1], line_num_a, line_num_b) IN
         step[1] \o DirectLineChangesFrom(Tail(content_blocks), step[2], step[3])

\* line_changes of server_direct's get_file_diff: both counters start at 0
DirectLineChanges(content_blocks) == DirectLineChangesFrom(content_blocks, 0, 0)

\* what server_direct's get_file_diff returns for the decoded body diff_data
DirectFileDiffResult(file_path, diff_data) ==
    LET change_type == Get(diff_data, "change_type", "MODIFIED")
        metadata == IF change_type # "ADDED" THEN Get(diff_data, "meta_a", <<>>)
                    ELSE <<>>
        metadata_b == Get(diff_data, "meta_b", <<>>)
    IN  [file_path |-> file_path,
         line_changes |-> DirectLineChanges(Get(diff_data, "content", <<>>)),
         metadata |-> [change_type |-> change_type,
                       content_type_a |-> Get(metadata, "content_type", ""),
                       content_type_b |-> Get(metadata_b, "content_type", ""),
                       lines_inserted |-> Get(diff_data, "lines_inserted", 0),
                       lines_deleted |-> Get(diff_data, "lines_deleted", 0),
                       size_delta |-> Get(diff_data, "size_delta", 0)]]

\* mutant: the entry of the commit message is left in the map
FileListResultKeepsCommitMsg(file_map) == [files |-> file_map]

\* what get_file_list returns: the file map without /COMMIT_MSG
FileListResult(file_map) ==
    [files |-> [p \in (DOMAIN file_map) \ {"/COMMIT_MSG"} |-> file_map[p]]]

-----------------------------------------------------------------------------
(* Inputs *)

\* change ids the tools are invoked with
SampleIds ==
    { <<>>,
      <<"1", "2">>,
      <<"p", "~", "1">>,
      <<"p", "/", "q", "~", "1">>,
      <<"p", "%", "2", "F", "q", "~", "1">>,
      <<"p", "~", "b", "~", "I", "1">> }

FilePaths == { <<>>, <<"f">>, <<"d", "/", "f">> }
Messages == { "", "m" }
LineArgs == { -1, 0, 7 }
LabelArgs == { -2, -1, 0, 1 }

LineTexts == <<"l1", "l2", "l3", "l4", "l5", "l6">>
LineLists == { SubSeq(LineTexts, 1, n) : n \in 1..MaxLines }
SkipCounts == { 1, 5 }

\* the sections of a Gerrit diff body: common, removed, added, replaced, skipped
Sections ==
    { [ab |-> l] : l \in LineLists } \cup
    { [a |-> l] : l \in LineLists } \cup
    { [b |-> l] : l \in LineLists } \cup
    { [a |-> l, b |-> m] : l \in LineLists, m \in LineLists } \cup
    { [skip |-> n] : n \in SkipCounts }

Contents == UNION { [1..n -> Sections] : n \in 0..MaxSections }

\* Common(a, b), Added(c), Removed(d)
ThreeSegments == << [ab |-> <<"a", "b">>], [b |-> <<"c">>], [a |-> <<"d">>] >>

\* the HTTP statuses Gerrit may answer with
Statuses == { 200, 399, 400, 404, 500 }

-----------------------------------------------------------------------------
(* Tool entry points (src/mmcp/tools) and the API functions they call *)

\* make_gerrit_request(url, method, data, session) as the API function calls
\* it; `outcome` is the value it returns or the exception it raises
RequestLayerCall(url, method, data, session) ==
    [url |-> url, method |-> method, data |-> data, session |-> session,
     outcome |-> NoResult]

\* the invocation made no call of an API function
NotCalled == api_calls' = <<>>

\* the invocation called the API function `function` with `args`, which
\* returned `returned` (NoResult: it is at its await)
Called(function, args, returned) ==
    api_calls' = << [function |-> function, args |-> args, returned |-> returned] >>

Returned(c, r) ==
    /\ pc' = "done"
    /\ call' = c
    /\ requests' = <<>>
    /\ made' = <<>>
    /\ task' = "none"
    /\ response' = NoResponse
    /\ result' = r

\* mutant: the request is handed to session.request a second time
RequestedTwice(c, url, method, data) ==
    /\ pc' = "awaiting"
    /\ call' = c
    /\ requests' = << [method |-> method,
                       url |-> ProcessUrl(url, GetAuthUrl(env)),
                       body |-> data],
                      [method |-> method,
                       url |-> ProcessUrl(url, GetAuthUrl(env)),
                       body |-> data] >>
    /\ made' = << RequestLayerCall(url, method, data, c.session) >>
    /\ task' = "pending"
    /\ response' = NoResponse
    /\ result' = NoResult

\* make_gerrit_request up to its await: the URL is normalised and the request
\* is handed to session.request
Requested(c, url, method, data) ==
    /\ pc' = "awaiting"
    /\ call' = c
    /\ requests' = << [method |-> method,
                       url |-> ProcessUrl(url, GetAuthUrl(env)),
                       body |-> data] >>
    /\ made' = << RequestLayerCall(url, method, data, c.session) >>
    /\ task' = "pending"
    /\ response' = NoResponse
    /\ result' = NoResult

\* ctx.request_context.lifespan_context.get("gerrit_session")
LifespanSession == IF gerrit_session THEN "gerrit_session" ELSE NoSession

\* `if not session`
NoSessionThere(session) == session = NoSession

\* `if not file_path`
NoFilePath(file_path) == file_path = <<>>

\* mutant: an empty message passes the test
NoMessageNever(message) == FALSE

\* `if not message`
NoMessage(message) == message = ""

SessionMissing == ErrorResult("", "", "Gerrit session not available")

\* format_error_response of src/utils, which the except branch of each tool of
\* src/mmcp/tools returns: the class name, ": ", the message
FormatErrorResponse(exc, text) == ErrorResult(exc, exc, text)

\* get_auth_credentials() raised ValueError inside the decorated API function
CredentialsMissing ==
    ErrorResult("Unexpected error", "ValueError", "Missing required credentials")

\* a tool that checks the session and calls an API function that only builds a URL
SimpleTool(tool, change_id, url) ==
    LET session == LifespanSession
        c == [NoCall EXCEPT !.tool = tool, !.change_id = change_id,
                            !.session = session]
        args == [change_id |-> change_id, session |-> session]
    IN
    /\ pc = "idle"
    /\ IF NoSessionThere(session) THEN Returned(c, SessionMissing) /\ NotCalled
       ELSE IF ~CredentialsPresent(env)
       THEN Returned(c, CredentialsMissing) /\ Called(tool, args, CredentialsMissing)
       ELSE Requested(c, url, "GET", NoData) /\ Called(tool, args, NoResult)
    /\ UNCHANGED <<env, argv, gerrit_session, norm_base, norm_id, norm_urls,
                   diff_in, diff_binary, diff_out, direct_out,
                   walk, life>>

get_commit_info_tool ==
    \E change_id \in SampleIds :
        SimpleTool("get_commit_info", change_id,
                   CommitInfoUrl(GetAuthUrl(env), change_id))

get_change_detail_tool ==
    \E change_id \in SampleIds :
        SimpleTool("get_change_detail", change_id,
                   ChangeDetailUrl(GetAuthUrl(env), change_id))

get_commit_message_tool ==
    \E change_id \in SampleIds :
        SimpleTool("get_commit_message", change_id,
                   CommitMessageUrl(GetAuthUrl(env), change_id))

get_related_changes_tool ==
    \E change_id \in SampleIds :
        SimpleTool("get_related_changes", change_id,
                   RelatedChangesUrl(GetAuthUrl(env), change_id))

get_file_list_tool ==
    \E change_id \in SampleIds :
        SimpleTool("get_file_list", change_id,
                   FileListUrl(GetAuthUrl(env), change_id))

get_file_diff_tool ==
    \E change_id \in SampleIds, file_path \in FilePaths :
        LET session == LifespanSession
            c == [NoCall EXCEPT !.tool = "get_file_diff", !.change_id = change_id,
                                !.file_path = file_path, !.session = session]
            args == [change_id |-> change_id, file_path |-> file_path,
                     session |-> session]
        IN
        /\ pc = "idle"
        /\ IF NoSessionThere(session) THEN Returned(c, SessionMissing) /\ NotCalled
           ELSE IF NoFilePath(file_path)
           THEN Returned(c, ErrorResult("", "", "File path is required")) /\ NotCalled
           ELSE IF ~CredentialsPresent(env)
           THEN /\ Returned(c, CredentialsMissing)
                /\ Called("get_file_diff", args, CredentialsMissing)
           ELSE /\ Requested(c, FileDiffUrl(GetAuthUrl(env), change_id, file_path),
                             "GET", NoData)
                /\ Called("get_file_diff", args, NoResult)
        /\ UNCHANGED <<env, argv, gerrit_session, norm_base, norm_id,
                       norm_urls, diff_in, diff_binary, diff_out, direct_out,
                       walk, life>>

\* line_param = None if line == -1 else line
LineParam(line) == IF line = -1 THEN None ELSE Some(line)

\* comment_data of create_draft_comment: `line` is added when line != -1
CommentData(file_path, message, line) ==
    IF line # Some(-1)
    THEN [path |-> file_path, message |-> message, unresolved |-> "true",
          line |-> line]
    ELSE [path |-> file_path, message |-> message, unresolved |-> "true"]

create_draft_comment_tool ==
    \E change_id \in SampleIds, file_path \in FilePaths,
       message \in Messages, line \in LineArgs :
        LET session == LifespanSession
            c == [NoCall EXCEPT !.tool = "create_draft_comment",
                                !.change_id = change_id, !.file_path = file_path,
                                !.message = message, !.line = line,
                                !.session = session]
            line_param == LineParam(line)
            args == [change_id |-> change_id, file_path |-> file_path,
                     message |-> message, line |-> line_param,
                     session |-> session]
        IN
        /\ pc = "idle"
        /\ IF NoSessionThere(session) THEN Returned(c, SessionMissing) /\ NotCalled
           ELSE IF NoFilePath(file_path)
           THEN Returned(c, ErrorResult("", "", "File path is required")) /\ NotCalled
           ELSE IF NoMessage(message)
           THEN /\ Returned(c, ErrorResult("", "", "Comment message is required"))
                /\ NotCalled
           ELSE IF ~CredentialsPresent(env)
           THEN /\ Returned(c, CredentialsMissing)
                /\ Called("create_draft_comment", args, CredentialsMissing)
           ELSE /\ Requested(c, DraftsUrl(GetAuthUrl(env), change_id), "PUT",
                             CommentData(file_path, message, line_param))
                /\ Called("create_draft_comment", args, NoResult)
        /\ UNCHANGED <<env, argv, gerrit_session, norm_base, norm_id,
                       norm_urls, diff_in, diff_binary, diff_out, direct_out,
                       walk, life>>

\* mutant: the label 0 ("no score") passes the test
InvalidLabelAcceptsZero(code_review_label) == code_review_label \notin {-1, -2, 0}

\* code_review_label not in [-1, -2]
InvalidLabel(code_review_label) == code_review_label \notin {-1, -2}

\* review_data of set_review: `message` is added when it is not empty
ReviewData(code_review_label, message) ==
    IF message # ""
    THEN [drafts |-> "PUBLISH", labels |-> [CodeReview |-> code_review_label],
          message |-> message]
    ELSE [drafts |-> "PUBLISH", labels |-> [CodeReview |-> code_review_label]]

\* gerrit.api.set_review, called with a session
ApiSetReview(c) ==
    LET args == [change_id |-> c.change_id,
                 code_review_label |-> c.code_review_label,
                 message |-> c.message, session |-> c.session]
        invalid == ErrorResult("Unexpected error", "ValueError",
                               "Invalid Code-Review label value")
    IN
    IF ~CredentialsPresent(env)
    THEN Returned(c, CredentialsMissing) /\ Called("set_review", args, CredentialsMissing)
    ELSE IF InvalidLabel(c.code_review_label)
    THEN Returned(c, invalid) /\ Called("set_review", args, invalid)
    ELSE /\ Requested(c, ReviewUrl(GetAuthUrl(env), c.change_id), "POST",
                      ReviewData(c.code_review_label, c.message))
         /\ Called("set_review", args, NoResult)

\* the label test of set_review_tool
ToolRejectsLabel(code_review_label) == InvalidLabel(code_review_label)

set_review_tool ==
    \E change_id \in SampleIds, code_review_label \in LabelArgs, message \in Messages :
        LET session == LifespanSession
            c == [NoCall EXCEPT !.tool = "set_review", !.change_id = change_id,
                                !.code_review_label = code_review_label,
                                !.message = message, !.session = session]
        IN
        /\ pc = "idle"
        /\ IF NoSessionThere(session) THEN Returned(c, SessionMissing) /\ NotCalled
           ELSE IF ToolRejectsLabel(code_review_label)
           THEN /\ Returned(c, ErrorResult("", "", "Invalid Code-Review label value"))
                /\ NotCalled
           ELSE ApiSetReview(c)
        /\ UNCHANGED <<env, argv, gerrit_session, norm_base, norm_id,
                       norm_urls, diff_in, diff_binary, diff_out, direct_out,
                       walk, life>>

\* gerrit.api.set_review called directly by a holder of the session
set_review ==
    \E change_id \in SampleIds, code_review_label \in LabelArgs, message \in Messages :
        LET c == [NoCall EXCEPT !.entry = "api", !.tool = "set_review",
                                !.change_id = change_id,
                                !.code_review_label = code_review_label,
                                !.message = message,
                                !.session = LifespanSession] IN
        /\ pc = "idle"
        /\ gerrit_session
        /\ ApiSetReview(c)
        /\ UNCHANGED <<env, argv, gerrit_session, norm_base, norm_id,
                       norm_urls, diff_in, diff_binary, diff_out, direct_out,
                       walk, life>>

\* gerrit.api.get_change_detail(change_id, session) called directly with a
\* session of the caller's
get_change_detail ==
    \E change_id \in SampleIds, session \in Sessions :
        LET c == [NoCall EXCEPT !.entry = "api", !.tool = "get_change_detail",
                                !.change_id = change_id, !.session = session]
            args == [change_id |-> change_id, session |-> session]
        IN
        /\ pc = "idle"
        /\ IF ~CredentialsPresent(env)
           THEN /\ Returned(c, CredentialsMissing)
                /\ Called("get_change_detail", args, CredentialsMissing)
           ELSE /\ Requested(c, ChangeDetailUrl(GetAuthUrl(env), change_id),
                             "GET", NoData)
                /\ Called("get_change_detail", args, NoResult)
        /\ UNCHANGED <<env, argv, gerrit_session, norm_base, norm_id,
                       norm_urls, diff_in, diff_binary, diff_out, direct_out,
                       walk, life>>

-----------------------------------------------------------------------------
(* The tools registered by src/mmcp/server.py *)

\* args.gerrit_url, args.username, args.api_token ("" and <<>>: not given)
ArgvOf(url, username, token) ==
    [gerrit_url |-> url, username |-> username, api_token |-> token]

\* the command lines src/mmcp/server.py may be started with
Argvs ==
    { ArgvOf(<<>>, "", ""),
      ArgvOf(HttpG, "user", "token"),
      ArgvOf(HttpG, "", "") }

\* GERRIT_URL = args.gerrit_url or os.getenv('GERRIT_URL'), and the like
ServerConfig ==
    [GERRIT_URL |-> IF argv.gerrit_url # <<>> THEN argv.gerrit_url ELSE env.GERRIT_URL,
     GERRIT_USERNAME |-> IF argv.username # "" THEN argv.username
                         ELSE env.GERRIT_USERNAME,
     GERRIT_API_TOKEN |-> IF argv.api_token # "" THEN argv.api_token
                          ELSE env.GERRIT_API_TOKEN]

\* the module was imported without the ValueError and the lifespan yielded
\* its session
ServerStarted == CredentialsPresent(ServerConfig) /\ gerrit_session

\* how many positional parameters the API function of `tool` declares
Parameters(tool) ==
    CASE tool = "get_file_diff" -> 3
      [] tool = "create_draft_comment" -> 5
      [] tool = "set_review" -> 4
      [] OTHER -> 2

\* how many positional arguments the tool of src/mmcp/server.py passes:
\* GERRIT_URL is passed in front of the session
Passed(tool) ==
    CASE tool = "get_file_diff" -> 4
      [] tool = "create_draft_comment" -> 6
      [] tool = "set_review" -> 5
      [] OTHER -> 3

\* the positional arguments the tool of src/mmcp/server.py passes
PassedArguments(c) ==
    LET GERRIT_URL == ServerConfig.GERRIT_URL IN
    CASE c.tool = "get_file_diff" ->
            << c.change_id, c.file_path, GERRIT_URL, c.session >>
      [] c.tool = "create_draft_comment" ->
            << c.change_id, c.file_path, c.message, GERRIT_URL, c.session,
               c.line >>
      [] c.tool = "set_review" ->
            << c.change_id, c.code_review_label, GERRIT_URL, c.session,
               c.message >>
      [] OTHER -> << c.change_id, GERRIT_URL, c.session >>

\* the URL the API function of c.tool builds
ApiUrl(c) ==
    LET gerrit_url == GetAuthUrl(env) IN
    CASE c.tool = "get_commit_info" -> CommitInfoUrl(gerrit_url, c.change_id)
      [] c.tool = "get_change_detail" -> ChangeDetailUrl(gerrit_url, c.change_id)
      [] c.tool = "get_commit_message" -> CommitMessageUrl(gerrit_url, c.change_id)
      [] c.tool = "get_related_changes" -> RelatedChangesUrl(gerrit_url, c.change_id)
      [] c.tool = "get_file_list" -> FileListUrl(gerrit_url, c.change_id)
      [] c.tool = "get_file_diff" -> FileDiffUrl(gerrit_url, c.change_id, c.file_path)
      [] c.tool = "create_draft_comment" -> DraftsUrl(gerrit_url, c.change_id)
      [] c.tool = "set_review" -> ReviewUrl(gerrit_url, c.change_id)

\* the try block of handle_gerrit_errors around an API function that raised
\* `exc` with the message `text`
HandleRaised(exc, text) ==
    ErrorResult(CASE exc = "ResourceNotFoundError" -> "Resource not found"
                  [] exc = "GerritAPIError" -> "Gerrit API error"
                  [] OTHER -> "Unexpected error",
                exc, text)

\* the body of the API function of c.tool, once its parameters are bound
ApiBody(c) ==
    IF c.tool = "set_review" THEN ApiSetReview(c)
    ELSE IF ~CredentialsPresent(env)
    THEN /\ Returned(c, CredentialsMissing)
         /\ Called(c.tool, PassedArguments(c), CredentialsMissing)
    ELSE IF c.tool = "create_draft_comment"
    THEN /\ Requested(c, ApiUrl(c), "PUT",
                      CommentData(c.file_path, c.message, Some(c.line)))
         /\ Called(c.tool, PassedArguments(c), NoResult)
    ELSE /\ Requested(c, ApiUrl(c), "GET", NoData)
         /\ Called(c.tool, PassedArguments(c), NoResult)

\* a tool of src/mmcp/server.py calling the decorated API function: the call
\* binds the arguments by position, and a call with too many raises TypeError
\* inside the decorator's try block
ServerTool(c) ==
    /\ pc = "idle"
    /\ ServerStarted
    /\ IF Passed(c.tool) > Parameters(c.tool)
       THEN LET raised == HandleRaised("TypeError",
                                       [what |-> "positional arguments",
                                        takes |-> Parameters(c.tool),
                                        given |-> Passed(c.tool)])
            IN  Returned(c, raised) /\ Called(c.tool, PassedArguments(c), raised)
       ELSE ApiBody(c)
    /\ UNCHANGED <<env, argv, gerrit_session, norm_base, norm_id, norm_urls,
                   diff_in, diff_binary, diff_out, direct_out,
                   walk, life>>

ServerCall(tool, change_id) ==
    [NoCall EXCEPT !.entry = "server", !.tool = tool, !.change_id = change_id,
                   !.session = LifespanSession]

gerrit_get_commit_info_tool ==
    \E change_id \in SampleIds : ServerTool(ServerCall("get_commit_info", change_id))

gerrit_get_change_detail_tool ==
    \E change_id \in SampleIds : ServerTool(ServerCall("get_change_detail", change_id))

gerrit_get_commit_message_tool ==
    \E change_id \in SampleIds : ServerTool(ServerCall("get_commit_message", change_id))

gerrit_get_related_changes_tool ==
    \E change_id \in SampleIds : ServerTool(ServerCall("get_related_changes", change_id))

gerrit_get_file_list_tool ==
    \E change_id \in SampleIds : ServerTool(ServerCall("get_file_list", change_id))

gerrit_get_file_diff_tool ==
    \E change_id \in SampleIds, file_path \in FilePaths :
        ServerTool([ServerCall("get_file_diff", change_id)
                        EXCEPT !.file_path = file_path])

gerrit_create_draft_comment_tool ==
    \E change_id \in SampleIds, file_path \in FilePaths,
       message \in Messages, line \in LineArgs :
        ServerTool([ServerCall("create_draft_comment", change_id)
                        EXCEPT !.file_path = file_path, !.message = message,
                               !.line = line])

gerrit_set_review_tool ==
    \E change_id \in SampleIds, code_review_label \in LabelArgs, message \in Messages :
        ServerTool([ServerCall("set_review", change_id)
                        EXCEPT !.code_review_label = code_review_label,
                               !.message = message])

-----------------------------------------------------------------------------
(* The read tools registered by src/server_direct.py *)

\* the lifespan of src/server_direct.py yielded its session: the three
\* environment variables were there
DirectStarted == CredentialsPresent(env) /\ gerrit_session

\* the URL the tool of src/server_direct.py builds
DirectUrl(c) ==
    LET gerrit_url == env.GERRIT_URL IN
    CASE c.tool = "get_commit_info" -> CommitMessageUrl(gerrit_url, c.change_id)
      [] c.tool = "get_change_detail" -> ChangeDetailUrl(gerrit_url, c.change_id)
      [] c.tool = "get_commit_message" -> CommitInfoUrl(gerrit_url, c.change_id)
      [] c.tool = "get_related_changes" -> RelatedChangesUrl(gerrit_url, c.change_id)
      [] c.tool = "get_file_list" -> FileListUrl(gerrit_url, c.change_id)
      [] c.tool = "get_file_diff" ->
            FileDiffUrl(gerrit_url, c.change_id, c.file_path) \o DiffQuery

\* a read tool of src/server_direct.py up to the await of its request
DirectTool(c) ==
    /\ pc = "idle"
    /\ DirectStarted
    /\ NotCalled
    /\ IF env.GERRIT_URL = <<>>
       THEN Returned(c, Raise("ValueError", [what |-> "GERRIT_URL not set"]))
       ELSE /\ pc' = "awaiting"
            /\ call' = c
            /\ requests' = << [method |-> "GET",
                               url |-> ProcessUrl(DirectUrl(c), env.GERRIT_URL),
                               body |-> NoData] >>
            /\ made' = << RequestLayerCall(DirectUrl(c), "GET", NoData, c.session) >>
            /\ task' = "pending"
            /\ response' = NoResponse
            /\ result' = NoResult
    /\ UNCHANGED <<env, argv, gerrit_session, norm_base, norm_id, norm_urls,
                   diff_in, diff_binary, diff_out, direct_out,
                   walk, life>>

DirectCall(tool, change_id) ==
    [NoCall EXCEPT !.entry = "direct", !.tool = tool, !.change_id = change_id,
                   !.session = LifespanSession]

direct_get_commit_info ==
    \E change_id \in SampleIds : DirectTool(DirectCall("get_commit_info", change_id))

direct_get_change_detail ==
    \E change_id \in SampleIds : DirectTool(DirectCall("get_change_detail", change_id))

direct_get_commit_message ==
    \E change_id \in SampleIds : DirectTool(DirectCall("get_commit_message", change_id))

direct_get_related_changes ==
    \E change_id \in SampleIds : DirectTool(DirectCall("get_related_changes", change_id))

direct_get_file_list ==
    \E change_id \in SampleIds : DirectTool(DirectCall("get_file_list", change_id))

direct_get_file_diff ==
    \E change_id \in SampleIds, file_path \in FilePaths :
        DirectTool([DirectCall("get_file_diff", change_id)
                        EXCEPT !.file_path = file_path])

\* format_error_response of src/server_direct.py: the JSON text of the error
\* object, a str
DirectFormatErrorResponse(exc, text) ==
    [json_text |-> ErrorResult(exc, exc, text)]

\* what the tool of src/server_direct.py makes of the value make_gerrit_request
\* returned
DirectSuccess(c, decoded) ==
    CASE c.tool = "get_commit_message" ->
            [subject |-> Get(decoded, "subject", "None"),
             message |-> Get(decoded, "message", "None")]
      [] c.tool = "get_file_list" -> FileListResult(decoded)
      [] c.tool = "get_file_diff" -> DirectFileDiffResult(c.file_path, decoded)
      [] OTHER -> decoded

\* what the tool of src/server_direct.py makes of an exception of
\* make_gerrit_request: get_commit_info raises it again, the others return
\* the formatted text
DirectFailure(c, exc, text) ==
    IF c.tool = "get_commit_info" THEN Raise(exc, text)
    ELSE DirectFormatErrorResponse(exc, text)

-----------------------------------------------------------------------------
(* make_gerrit_request after its await: the outcome of the request *)

\* Gerrit's magic prefix
Magic == <<")", "]", "}", "'">>

Boom == <<"b", "o", "o", "m">>

\* the JSON texts of the documents Gerrit answers with; the text of a document
\* is written as one element
Documents ==
    ("{commit}" :> [commit |-> "c1", parents |-> <<>>])
    @@ ("{diff3}" :> [content |-> ThreeSegments])
    @@ ("{diffskip}" :> [content |-> << [skip |-> 5], [ab |-> <<"l1">>] >>])
    @@ ("{diffa}" :> [content |-> << [a |-> <<"l1", "l2">>] >>])
    @@ ("{diffbin}" :> [binary |-> TRUE, content_type |-> "image/png",
                        content |-> << [ab |-> <<"l1">>] >>])
    @@ ("{filesM}" :> [p \in {"/COMMIT_MSG", "f"} |-> [status |-> "M"]])
    @@ ("{filesA}" :> [p \in {"f"} |-> [status |-> "A"]])

DocumentsFor(tool) ==
    CASE tool = "get_file_diff" -> {"{diff3}", "{diffskip}", "{diffa}", "{diffbin}"}
      [] tool = "get_file_list" -> {"{filesM}", "{filesA}"}
      [] OTHER -> {"{commit}"}

\* response.text(): a document with or without the prefix, and bodies that
\* are no JSON: an error page, a prefix that is cut short or doubled, nothing
TextsFor(tool) ==
    { <<d>> : d \in DocumentsFor(tool) } \cup
    { Magic \o <<"\n", d>> : d \in DocumentsFor(tool) } \cup
    { Magic \o <<d>> : d \in DocumentsFor(tool) } \cup
    { <<" ", d, "\n">> : d \in DocumentsFor(tool) } \cup
    { SubSeq(Magic, 1, 3) \o <<d>> : d \in DocumentsFor(tool) } \cup
    { Magic \o Magic \o <<d>> : d \in DocumentsFor(tool) } \cup
    { Boom, Magic \o <<"\n">> \o Boom, Magic, <<>> }

Whitespace == {" ", "\n", "\t", "\r"}

\* str.strip()
RECURSIVE Strip(_)
Strip(s) ==
    IF s = <<>> THEN <<>>
    ELSE IF s[1] \in Whitespace THEN Strip(Tail(s))
    ELSE IF s[Len(s)] \in Whitespace THEN Strip(SubSeq(s, 1, Len(s) - 1))
    ELSE s

\* json.loads: the text of one document decodes to it, anything else raises
\* JSONDecodeError
JsonLoads(s) ==
    IF Len(s) = 1 /\ s[1] \in DOMAIN Documents
    THEN [valid |-> TRUE, value |-> Documents[s[1]]]
    ELSE [valid |-> FALSE, value |-> <<>>]

\* mutant: four characters are cut whether or not they are the prefix
ParseGerritResponseCutsAlways(response_text) ==
    JsonLoads(Strip(Drop(response_text, 4)))

\* parse_gerrit_response: the prefix is dropped when the text starts with it,
\* the rest is stripped and decoded
ParseGerritResponse(response_text) ==
    JsonLoads(Strip(IF StartsWith(response_text, Magic)
                    THEN Drop(response_text, 4)
                    ELSE response_text))

\* the API function's own work on the decoded body
ApiResult(c, decoded) ==
    CASE c.tool = "get_file_diff" -> FileDiffResult(c.file_path, decoded)
      [] c.tool = "get_file_list" -> FileListResult(decoded)
      [] OTHER -> decoded

\* mutant: the status 400 is not taken for an error
ClassifyFrom401(url, status, response_text) ==
    IF status = 404
    THEN Raise("ResourceNotFoundError", [what |-> "Resource not found", url |-> url])
    ELSE IF status > 400
    THEN Raise("GerritAPIError", [what |-> "Gerrit API error", status |-> status,
                                  body |-> response_text])
    ELSE LET parsed == ParseGerritResponse(response_text) IN
         IF ~parsed.valid
         THEN Raise("GerritAPIError", [what |-> "Invalid JSON response"])
         ELSE [value |-> parsed.value]

\* make_gerrit_request once the response is there: the status is looked at
\* first, then the body is decoded
Classify(url, status, response_text) ==
    IF status = 404
    THEN Raise("ResourceNotFoundError", [what |-> "Resource not found", url |-> url])
    ELSE IF status >= 400
    THEN Raise("GerritAPIError", [what |-> "Gerrit API error", status |-> status,
                                  body |-> response_text])
    ELSE LET parsed == ParseGerritResponse(response_text) IN
         IF ~parsed.valid
         THEN Raise("GerritAPIError", [what |-> "Invalid JSON response"])
         ELSE [value |-> parsed.value]

\* what the invocation c returns when make_gerrit_request ended with
\* `outcome`, a value or an exception
Concluded(c, outcome) ==
    IF c.entry = "direct"
    THEN IF IsRaised(outcome)
         THEN DirectFailure(c, outcome.raised.exc, outcome.raised.text)
         ELSE DirectSuccess(c, outcome.value)
    ELSE IF IsRaised(outcome)
         THEN HandleRaised(outcome.raised.exc, outcome.raised.text)
         ELSE ApiResult(c, outcome.value)

\* make_gerrit_request ended with `outcome` and the API function that
\* awaited it, if one did, returned `returned`
Ended(outcome, returned) ==
    /\ made' = [made EXCEPT ![1].outcome = outcome]
    /\ api_calls' = [k \in 1..Len(api_calls) |->
                        [api_calls[k] EXCEPT !.returned = returned]]

\* what the decorated API function returns for a response
ResponseResult(c, url, status, response_text) ==
    Concluded(c, Classify(url, status, response_text))

ResponseArrives ==
    \E status \in Statuses, response_text \in TextsFor(call.tool) :
        /\ pc = "awaiting"
        /\ pc' = "done"
        /\ task' = "done"
        /\ response' = [status |-> status, text |-> response_text]
        /\ result' = ResponseResult(call, requests[1].url, status, response_text)
        /\ Ended(Classify(requests[1].url, status, response_text), result')
        /\ UNCHANGED <<env, argv, gerrit_session, call, requests, norm_base,
                       norm_id, norm_urls, diff_in, diff_binary, diff_out,
                       direct_out,
                       walk, life>>

\* mutant: the task is left running
CancelTaskForgotten(t) == t

\* response_task.cancel()
CancelTask(t) == "cancelling"

\* asyncio.wait returned with the task still pending: it is cancelled and
\* then awaited
RequestTimesOut ==
    /\ pc = "awaiting"
    /\ call.entry # "direct"
    /\ pc' = "cancelling"
    /\ task' = CancelTask(task)
    /\ UNCHANGED <<env, argv, gerrit_session, call, requests, response, result,
                   norm_base, norm_id, norm_urls, diff_in, diff_binary, diff_out,
                   direct_out,
                   api_calls, made, walk, life>>

\* how the await of the cancelled task may end: with CancelledError, with
\* another exception of the request, or with the task's value
CancelOutcomes == {"cancelled", "failed_after_cancel", "finished_after_cancel"}

\* the exception make_gerrit_request raises for each of them
AfterCancel(how) ==
    CASE how = "cancelled" ->
            Raise("GerritAPIError", [what |-> "Request timed out"])
      [] how = "failed_after_cancel" ->
            Raise("GerritAPIError", [what |-> "Client error"])
      [] how = "finished_after_cancel" ->
            Raise("GerritAPIError",
                  [what |-> "Task finished but was not in the 'done' set"])

\* await response_task, after the cancel
CancelledTaskAwaited ==
    \E how \in CancelOutcomes :
        /\ pc = "cancelling"
        /\ pc' = "done"
        /\ task' = how
        /\ result' = Concluded(call, AfterCancel(how))
        /\ Ended(AfterCancel(how), result')
        /\ UNCHANGED <<env, argv, gerrit_session, call, requests, response,
                       norm_base, norm_id, norm_urls, diff_in, diff_binary,
                       diff_out, direct_out,
                       walk, life>>

\* the messages make_gerrit_request gives the exceptions of session.request
FailuresOf(entry) ==
    IF entry = "direct" THEN {"Network error", "Unexpected error"}
    ELSE {"Connection error", "Client error", "Request timed out"}

\* session.request raised: a connection or client error, or a timeout of the
\* session's own
RequestFails ==
    \E what \in FailuresOf(call.entry) :
        /\ pc = "awaiting"
        /\ pc' = "done"
        /\ task' = "failed"
        /\ result' = Concluded(call, Raise("GerritAPIError", [what |-> what]))
        /\ Ended(Raise("GerritAPIError", [what |-> what]), result')
        /\ UNCHANGED <<env, argv, gerrit_session, call, requests, response,
                       norm_base, norm_id, norm_urls, diff_in, diff_binary,
                       diff_out, direct_out,
                       walk, life>>

\* the caller took the result; the next invocation may start
NextInvocation ==
    /\ pc = "done"
    /\ pc' = "idle"
    /\ call' = NoCall
    /\ requests' = <<>>
    /\ api_calls' = <<>>
    /\ made' = <<>>
    /\ task' = "none"
    /\ response' = NoResponse
    /\ result' = NoResult
    /\ UNCHANGED <<env, argv, gerrit_session, norm_base, norm_id, norm_urls,
                   diff_in, diff_binary, diff_out, direct_out,
                   walk, life>>

-----------------------------------------------------------------------------
(* Specification of the tools *)

FacadeIdle ==
    /\ pc = "idle"
    /\ call = NoCall
    /\ requests = <<>>
    /\ api_calls = <<>>
    /\ made = <<>>
    /\ task = "none"
    /\ response = NoResponse
    /\ result = NoResult

NormOff == norm_base = <<>> /\ norm_id = <<>> /\ norm_urls = <<>>

\* the loop of server_direct's get_file_diff is not followed
WalkOff == walk = [at |-> "off"]

\* the lifespan is not followed
LifeOff == life = [at |-> "off"]

DiffOff ==
    /\ diff_in = <<>>
    /\ diff_binary = FALSE
    /\ diff_out = NoResult
    /\ direct_out = NoResult

Init ==
    /\ env \in Envs
    /\ argv \in Argvs
    /\ gerrit_session \in BOOLEAN
    /\ FacadeIdle
    /\ NormOff
    /\ DiffOff
    /\ WalkOff
    /\ LifeOff

Next ==
    \/ get_commit_info_tool
    \/ get_change_detail_tool
    \/ get_commit_message_tool
    \/ get_related_changes_tool
    \/ get_file_list_tool
    \/ get_file_diff_tool
    \/ create_draft_comment_tool
    \/ set_review_tool
    \/ set_review
    \/ get_change_detail
    \/ gerrit_get_commit_info_tool
    \/ gerrit_get_change_detail_tool
    \/ gerrit_get_commit_message_tool
    \/ gerrit_get_related_changes_tool
    \/ gerrit_get_file_list_tool
    \/ gerrit_get_file_diff_tool
    \/ gerrit_create_draft_comment_tool
    \/ gerrit_set_review_tool
    \/ direct_get_commit_info
    \/ direct_get_change_detail
    \/ direct_get_commit_message
    \/ direct_get_related_changes
    \/ direct_get_file_list
    \/ direct_get_file_diff
    \/ ResponseArrives
    \/ RequestTimesOut
    \/ CancelledTaskAwaited
    \/ RequestFails
    \/ NextInvocation

Spec == Init /\ [][Next]_vars

-----------------------------------------------------------------------------
(* Specification of the URL normalisation alone: make_gerrit_request is    *)
(* given the URL of an API function for a change id, then its own output.  *)

IdAlphabet == {"1", "p", "~", "/", "%"}
ChangeIds == UNION { [1..n -> IdAlphabet] : n \in 0..MaxIdLen }

\* the URLs three of the API functions build for a change id
ApiUrls(gerrit_url, change_id) ==
    { ChangeDetailUrl(gerrit_url, change_id),
      CommitMessageUrl(gerrit_url, change_id),
      FileDiffUrl(gerrit_url, change_id, <<"d", "/", "f">>) }

InitNorm ==
    /\ env = EnvOf(HttpG, "user", "token")
    /\ argv = ArgvOf(<<>>, "", "")
    /\ gerrit_session = TRUE
    /\ FacadeIdle
    /\ DiffOff
    /\ WalkOff
    /\ LifeOff
    /\ norm_base = GetAuthUrl(env)
    /\ norm_id \in ChangeIds
    /\ \E url \in ApiUrls(norm_base, norm_id) : norm_urls = <<url>>

Normalize ==
    /\ Len(norm_urls) \in {1, 2}
    /\ norm_urls' = Append(norm_urls, ProcessUrl(norm_urls[Len(norm_urls)], norm_base))
    /\ UNCHANGED <<env, argv, gerrit_session, pc, call, requests, task,
                   response, result, norm_base, norm_id, diff_in, diff_binary,
                   diff_out, direct_out,
                   api_calls, made, walk, life>>

NextNorm == Normalize

SpecNorm == InitNorm /\ [][NextNorm]_vars

-----------------------------------------------------------------------------
(* Specification of the diff reconstruction alone *)

InitDiff ==
    /\ env = EnvOf(HttpG, "user", "token")
    /\ argv = ArgvOf(<<>>, "", "")
    /\ gerrit_session = TRUE
    /\ FacadeIdle
    /\ NormOff
    /\ WalkOff
    /\ LifeOff
    /\ diff_in \in Contents \cup {ThreeSegments}
    /\ diff_binary \in BOOLEAN
    /\ diff_out = NoResult
    /\ direct_out = NoResult

\* the decoded diff body both implementations are given
DiffBody ==
    IF diff_binary
    THEN [binary |-> TRUE, content_type |-> "image/png", content |-> diff_in]
    ELSE [content |-> diff_in]

Reconstruct ==
    /\ diff_out = NoResult
    /\ diff_out' = FileDiffResult(<<"f">>, DiffBody)
    /\ direct_out' = DirectFileDiffResult(<<"f">>, DiffBody)
    /\ UNCHANGED <<env, argv, gerrit_session, pc, call, requests, task,
                   response, result, norm_base, norm_id, norm_urls, diff_in,
                   diff_binary,
                   api_calls, made, walk, life>>

NextDiff == Reconstruct

SpecDiff == InitDiff /\ [][NextDiff]_vars

-----------------------------------------------------------------------------
(* get_file_diff of src/server_direct.py, its loop followed line by line *)

\* line_changes = [], line_num_a = 0, line_num_b = 0, before the first block
WalkStart ==
    [at |-> "loop", block |-> 1, line |-> 0, line_num_a |-> 0, line_num_b |-> 0,
     line_changes |-> <<>>]

InitWalk ==
    /\ env = EnvOf(HttpG, "user", "token")
    /\ argv = ArgvOf(<<>>, "", "")
    /\ gerrit_session = TRUE
    /\ FacadeIdle
    /\ NormOff
    /\ LifeOff
    /\ diff_in \in Contents \cup {ThreeSegments}
    /\ diff_binary = FALSE
    /\ diff_out = NoResult
    /\ direct_out = NoResult
    /\ walk = WalkStart

\* the loop stands at a block of content_blocks
InBlock == walk.at = "loop" /\ walk.block <= Len(diff_in)

\* the key of the block the if/elif chain takes: the first of ab, a, b, skip
\* that is in the block
BranchTaken(block) ==
    IF "ab" \in DOMAIN block THEN "ab"
    ELSE IF "a" \in DOMAIN block THEN "a"
    ELSE IF "b" \in DOMAIN block THEN "b"
    ELSE IF "skip" \in DOMAIN block THEN "skip"
    ELSE "none"

WalkUnchanged ==
    UNCHANGED <<env, argv, gerrit_session, pc, call, requests, task, response,
                result, norm_base, norm_id, norm_urls, diff_in, diff_binary,
                diff_out, api_calls, made, life>>

\* one pass of `for text in lines` under `if 'ab' in block`
WalkCommonLine ==
    /\ InBlock
    /\ BranchTaken(diff_in[walk.block]) = "ab"
    /\ walk.line < Len(diff_in[walk.block].ab)
    /\ walk' = [walk EXCEPT
                  !.line = @ + 1,
                  !.line_num_a = @ + 1,
                  !.line_num_b = @ + 1,
                  !.line_changes =
                      Append(@, [type |-> "common",
                                 line_number |-> walk.line_num_b + 1,
                                 content |-> diff_in[walk.block].ab[walk.line + 1]])]
    /\ direct_out' = direct_out
    /\ WalkUnchanged

\* one pass of `for text in lines` under `elif 'a' in block`
WalkRemovedLine ==
    /\ InBlock
    /\ BranchTaken(diff_in[walk.block]) = "a"
    /\ walk.line < Len(diff_in[walk.block].a)
    /\ walk' = [walk EXCEPT
                  !.line = @ + 1,
                  !.line_num_a = @ + 1,
                  !.line_changes =
                      Append(@, [type |-> "removed",
                                 line_number |-> walk.line_num_a + 1,
                                 content |-> diff_in[walk.block].a[walk.line + 1]])]
    /\ direct_out' = direct_out
    /\ WalkUnchanged

\* mutant: an added line moves the old-side counter as well
WalkAddedLineMovesBoth ==
    /\ InBlock
    /\ BranchTaken(diff_in[walk.block]) = "b"
    /\ walk.line < Len(diff_in[walk.block].b)
    /\ walk' = [walk EXCEPT
                  !.line = @ + 1,
                  !.line_num_a = @ + 1,
                  !.line_num_b = @ + 1,
                  !.line_changes =
                      Append(@, [type |-> "added",
                                 line_number |-> walk.line_num_b + 1,
                                 content |-> diff_in[walk.block].b[walk.line + 1]])]
    /\ direct_out' = direct_out
    /\ WalkUnchanged

\* one pass of `for text in lines` under `elif 'b' in block`
WalkAddedLine ==
    /\ InBlock
    /\ BranchTaken(diff_in[walk.block]) = "b"
    /\ walk.line < Len(diff_in[walk.block].b)
    /\ walk' = [walk EXCEPT
                  !.line = @ + 1,
                  !.line_num_b = @ + 1,
                  !.line_changes =
                      Append(@, [type |-> "added",
                                 line_number |-> walk.line_num_b + 1,
                                 content |-> diff_in[walk.block].b[walk.line + 1]])]
    /\ direct_out' = direct_out
    /\ WalkUnchanged

\* `elif 'skip' in block`: both counters are moved by the count
WalkSkipBlock ==
    /\ InBlock
    /\ BranchTaken(diff_in[walk.block]) = "skip"
    /\ walk' = [walk EXCEPT
                  !.block = @ + 1,
                  !.line = 0,
                  !.line_num_a = @ + diff_in[walk.block].skip,
                  !.line_num_b = @ + diff_in[walk.block].skip]
    /\ direct_out' = direct_out
    /\ WalkUnchanged

\* the lines of the branch taken are used up: the loop goes to the next block
WalkNextBlock ==
    /\ InBlock
    /\ LET branch == BranchTaken(diff_in[walk.block]) IN
       /\ branch # "skip"
       /\ branch # "none" => walk.line = Len(diff_in[walk.block][branch])
    /\ walk' = [walk EXCEPT !.block = @ + 1, !.line = 0]
    /\ direct_out' = direct_out
    /\ WalkUnchanged

\* content_blocks is used up: the result is returned with line_changes
WalkReturn ==
    /\ walk.at = "loop"
    /\ walk.block > Len(diff_in)
    /\ walk' = [walk EXCEPT !.at = "done"]
    /\ direct_out' =
           [DirectFileDiffResult(<<"f">>, [content |-> diff_in])
               EXCEPT !.line_changes = walk.line_changes]
    /\ WalkUnchanged

NextWalk ==
    \/ WalkCommonLine
    \/ WalkRemovedLine
    \/ WalkAddedLine
    \/ WalkSkipBlock
    \/ WalkNextBlock
    \/ WalkReturn

SpecWalk == InitWalk /\ [][NextWalk]_vars

-----------------------------------------------------------------------------
(* gerrit_lifespan of src/mmcp/server.py: the session from start to shutdown *)

\* how many tool invocations are followed while the context is yielded
MaxServed == 2

\* validate_auth has not been awaited
NotValidated == [awaited |-> FALSE]

\* asyncio.wait_for raised asyncio.TimeoutError after AUTH_TIMEOUT seconds
TimedOut == [timeout |-> "AUTH_TIMEOUT"]

\* life before the module is imported: no session, nothing counted
LifeStart ==
    [at |-> "import", session |-> "none", created |-> 0, closes |-> 0,
     validation |-> NotValidated, served |-> 0, raising |-> "", close_ended |-> "none"]

InitLife ==
    /\ env \in Envs
    /\ argv \in Argvs
    /\ gerrit_session = FALSE
    /\ FacadeIdle
    /\ NormOff
    /\ DiffOff
    /\ WalkOff
    /\ life = LifeStart

LifeUnchanged ==
    UNCHANGED <<env, argv, pc, call, requests, task, response, result,
                norm_base, norm_id, norm_urls, diff_in, diff_binary, diff_out,
                direct_out, api_calls, made, walk>>

\* the module level of src/mmcp/server.py: without the three values the
\* import raises ValueError and no lifespan is entered
ImportModule ==
    /\ life.at = "import"
    /\ life' = IF CredentialsPresent(ServerConfig)
               THEN [life EXCEPT !.at = "start"]
               ELSE [life EXCEPT !.at = "import_failed",
                                 !.raising = "ValueError: must be provided"]
    /\ UNCHANGED gerrit_session
    /\ LifeUnchanged

\* create_auth_session: ValueError without the three values, else a new
\* aiohttp.ClientSession
create_auth_session(config) ==
    IF ~CredentialsPresent(config) THEN "ValueError" ELSE "session"

\* the first try block of gerrit_lifespan: the session is created, or the
\* exception goes through the outer handler to the finally block
CreateSession ==
    /\ life.at = "start"
    /\ life' = IF create_auth_session(ServerConfig) = "session"
               THEN [life EXCEPT !.at = "validating", !.session = "open",
                                 !.created = @ + 1]
               ELSE [life EXCEPT !.at = "finally",
                                 !.raising = "ValueError: must be provided"]
    /\ UNCHANGED gerrit_session
    /\ LifeUnchanged

\* how session.get(endpoint) of validate_auth may end: a response with a
\* status, or an exception
ValidationOutcomes ==
    { [status |-> st] : st \in Statuses } \cup
    { [exception |-> e] :
        e \in {"ClientConnectorError", "ClientError", "TimeoutError", "Exception"} }

\* mutant: a request that raised is taken for a valid authentication
validate_auth_trusts_failure(outcome) ==
    IF "status" \in DOMAIN outcome THEN outcome.status = 200 ELSE TRUE

\* validate_auth: True for the status 200, False for every other status and
\* for every exception of the request
validate_auth(outcome) ==
    IF "status" \in DOMAIN outcome THEN outcome.status = 200 ELSE FALSE

\* validate_auth returned within AUTH_TIMEOUT: with True the context
\* {"gerrit_session": session} is yielded, with False ValueError is raised
\* and caught by the `except Exception` of the same try block
ValidateAuthReturns ==
    \E outcome \in ValidationOutcomes :
        /\ life.at = "validating"
        /\ IF validate_auth(outcome)
           THEN /\ life' = [life EXCEPT !.at = "yielded", !.validation = outcome]
                /\ gerrit_session' = TRUE
           ELSE /\ life' = [life EXCEPT
                              !.at = "handler", !.validation = outcome,
                              !.raising = "ValueError: Authentication validation failed"]
                /\ UNCHANGED gerrit_session
        /\ LifeUnchanged

\* asyncio.wait_for gave up after AUTH_TIMEOUT seconds: asyncio.TimeoutError
ValidateAuthTimesOut ==
    /\ life.at = "validating"
    /\ life' = [life EXCEPT
                  !.at = "handler", !.validation = TimedOut,
                  !.raising = "ValueError: Authentication validation timed out"]
    /\ UNCHANGED gerrit_session
    /\ LifeUnchanged

\* mutant: every session there is gets closed, closed or not
ShouldCloseWhateverState(session) == session # "none"

\* `if session and not session.closed`
ShouldClose(session) == session = "open"

\* session.close() is called: aiohttp marks the connector closed before the
\* coroutine first suspends, so session.closed is true however the await ends
CloseInvoked(l) == [l EXCEPT !.session = "closed", !.closes = @ + 1]

\* the two handlers of the validation: the session is closed when it is open
\* and the ValueError is raised, or the exception of close() takes its place;
\* the outer handler raises it again and the finally block follows
HandlerClosesSession ==
    /\ life.at = "handler"
    /\ IF ShouldClose(life.session)
       THEN \E ended \in {"returned", "raised"} :
               life' = [CloseInvoked(life) EXCEPT
                          !.at = "finally",
                          !.raising = IF ended = "raised" THEN "Exception: close"
                                      ELSE life.raising]
       ELSE life' = [life EXCEPT !.at = "finally"]
    /\ UNCHANGED gerrit_session
    /\ LifeUnchanged

\* a tool runs with the yielded context
ServeTool ==
    /\ life.at = "yielded"
    /\ life.served < MaxServed
    /\ life' = [life EXCEPT !.served = @ + 1]
    /\ UNCHANGED gerrit_session
    /\ LifeUnchanged

\* the server shuts down: the generator is resumed after its yield
Shutdown ==
    /\ life.at = "yielded"
    /\ life' = [life EXCEPT !.at = "finally"]
    /\ gerrit_session' = FALSE
    /\ LifeUnchanged

\* an exception of the server is thrown into the generator at its yield: the
\* outer handler logs it and raises it again
ServingRaises ==
    /\ life.at = "yielded"
    /\ life' = [life EXCEPT !.at = "finally", !.raising = "Exception: serving"]
    /\ gerrit_session' = FALSE
    /\ LifeUnchanged

\* how the await of wait_for(session.close(), timeout=5) may end; the finally
\* block catches the timeout and the exception
CloseEnds == {"returned", "TimeoutError", "raised"}

\* the finally block: an open session is closed, then the lifespan is over
FinallyCloses ==
    /\ life.at = "finally"
    /\ IF ShouldClose(life.session)
       THEN \E ended \in CloseEnds :
               life' = [CloseInvoked(life) EXCEPT !.at = "exited",
                                                  !.close_ended = ended]
       ELSE life' = [life EXCEPT !.at = "exited"]
    /\ UNCHANGED gerrit_session
    /\ LifeUnchanged

NextLife ==
    \/ ImportModule
    \/ CreateSession
    \/ ValidateAuthReturns
    \/ ValidateAuthTimesOut
    \/ HandlerClosesSession
    \/ ServeTool
    \/ Shutdown
    \/ ServingRaises
    \/ FinallyCloses

SpecLife == InitLife /\ [][NextLife]_vars

-----------------------------------------------------------------------------
(* Helpers of the properties *)

\* urllib.parse.unquote on the escapes Quote produces
RECURSIVE Unquote(_)
Unquote(s) ==
    IF s = <<>> THEN <<>>
    ELSE IF s[1] = "%" /\ Len(s) >= 3
            /\ \E c \in {"/", "%", ":", "?", " ", "+"} : PercentCode(c) = SubSeq(s, 1, 3)
         THEN << CHOOSE c \in {"/", "%", ":", "?", " ", "+"} :
                    PercentCode(c) = SubSeq(s, 1, 3) >> \o Unquote(Drop(s, 3))
         ELSE <<s[1]>> \o Unquote(Tail(s))

\* the path segment that follows "changes" in a URL under the base
ChangeIdSegment(url, gerrit_url) ==
    LET parts == Split(LStrip(Drop(url, Len(gerrit_url)), "/"), "/")
        k == IndexOf(parts, StrChanges)
    IN  parts[k + 1]

\* how many "~" a string holds
RECURSIVE CountTildes(_)
CountTildes(s) ==
    IF s = <<>> THEN 0
    ELSE (IF s[1] = "~" THEN 1 ELSE 0) + CountTildes(Tail(s))

\* a project or branch name: letters, digits and "/" between them
IsName(s) ==
    /\ s # <<>>
    /\ \A i \in 1..Len(s) : s[i] \in {"p", "1", "/"}
    /\ s[1] # "/" /\ s[Len(s)] # "/"

\* the three accepted shapes: digits, project~number, project~branch~changeId
ValidChangeId(id) ==
    LET parts == Split(id, "~") IN
    \/ IsDigit(id)
    \/ Len(parts) = 2 /\ IsName(parts[1]) /\ IsDigit(parts[2])
    \/ /\ Len(parts) = 3 /\ IsName(parts[1]) /\ IsName(parts[2])
       /\ parts[3] # <<>> /\ \A i \in 1..Len(parts[3]) : parts[3][i] \in {"p", "1"}

Sent == { requests[i] : i \in 1..Len(requests) }

\* the true positions of the lines of a diff body, in the order get_file_diff
\* visits them (per section: common, added, removed); a skipped region counts
\* on both sides
RECURSIVE TruePositionsFrom(_, _, _)
TruePositionsFrom(content, old_lines, new_lines) ==
    IF content = <<>> THEN <<>>
    ELSE LET ab == Get(content[1], "ab", <<>>)
             b == Get(content[1], "b", <<>>)
             a == Get(content[1], "a", <<>>)
             skip == Get(content[1], "skip", 0)
         IN  [i \in 1..Len(ab) |-> [type |-> "common", pos |-> new_lines + i]]
             \o [i \in 1..Len(b) |-> [type |-> "added", pos |-> new_lines + Len(ab) + i]]
             \o [i \in 1..Len(a) |-> [type |-> "removed", pos |-> old_lines + Len(ab) + i]]
             \o TruePositionsFrom(Tail(content),
                                  old_lines + Len(ab) + Len(a) + skip,
                                  new_lines + Len(ab) + Len(b) + skip)

TruePositions(content) == TruePositionsFrom(content, 0, 0)

Reconstructed == "line_changes" \in DOMAIN diff_out /\ ~diff_out.is_binary

-----------------------------------------------------------------------------
(* Properties *)

\* C1: create_draft_comment_tool with line = -1 sends a PUT body with no
\* `line` field; with any other line n the body's `line` field is n.
C1_DraftBodyLine ==
    \A r \in Sent :
        call.tool = "create_draft_comment" =>
            /\ r.method = "PUT"
            /\ call.line = -1 => "line" \notin DOMAIN r.body
            /\ call.line # -1 => "line" \in DOMAIN r.body /\ r.body.line = Some(call.line)

C4_EmptyChangeIdRejected ==
    (pc # "idle" /\ call.change_id = <<>>)
        => pc = "done" /\ IsError(result) /\ requests = <<>>

\* C5: normalising the URL make_gerrit_request produced yields that URL again.
C5_NormalizeIdempotent ==
    Len(norm_urls) = 3 => norm_urls[3] = norm_urls[2]

\* C6: for a change id of an accepted shape, percent-decoding the change-id
\* segment of the URL sent gives the change id back.
C6_ChangeIdRoundTrip ==
    (Len(norm_urls) >= 2 /\ ValidChangeId(norm_id))
        => Unquote(ChangeIdSegment(norm_urls[2], norm_base)) = norm_id

\* C7: the change-id segment is encoded by shape: one "~": project encoded,
\* number unchanged; several "~": every part encoded (the "~" kept); no "~"
\* and not all digits: encoded whole; all digits: unchanged.
C7_EncodedByShape ==
    Len(norm_urls) >= 2 =>
        LET seg == ChangeIdSegment(norm_urls[1], norm_base)
            out == ChangeIdSegment(norm_urls[2], norm_base)
            tildes == CountTildes(seg)
            at == CHOOSE i \in 1..Len(seg) : seg[i] = "~"
        IN  /\ ~Contains(norm_id, Slash) => seg = norm_id
            /\ tildes = 1 =>
                 out = Quote(SubSeq(seg, 1, at - 1)) \o SubSeq(seg, at, Len(seg))
            /\ tildes > 1 => out = Quote(seg)
            /\ (tildes = 0 /\ ~IsDigit(seg)) => out = Quote(seg)
            /\ IsDigit(seg) => out = seg

C7_Witness ==
    /\ Len(norm_urls) = 2
    /\ norm_id = <<"%", "~", "%">>
    /\ ChangeIdSegment(norm_urls[2], norm_base) = <<"%", "2", "5", "~", "%">>

\* C8: every common and added record carries the line's position in the new
\* file, every removed record the line's position in the old file.
C8_LineNumbersArePositions ==
    Reconstructed =>
        LET out == diff_out.line_changes
            true == TruePositions(diff_in)
        IN  /\ Len(out) = Len(true)
            /\ \A k \in 1..Len(out) :
                  out[k].type = true[k].type /\ out[k].line_number = true[k].pos

\* C9: a diff of removed lines only, n in all, gives n records, all removed,
\* numbered 1..n.
C9_OnlyRemoved ==
    (Reconstructed /\ diff_in # <<>>
        /\ \A i \in 1..Len(diff_in) : DOMAIN diff_in[i] = {"a"})
        => LET out == diff_out.line_changes IN
           /\ Len(out) = Len(TruePositions(diff_in))
           /\ \A k \in 1..Len(out) : out[k].type = "removed" /\ out[k].line_number = k

\* C10: a skip section emits no record and advances both counters, so the
\* common or added line that follows a leading Skip(n) is numbered n + 1.
C10_SkipAdvances ==
    (Reconstructed /\ Len(diff_in) >= 2
        /\ DOMAIN diff_in[1] = {"skip"}
        /\ (DOMAIN diff_in[2] = {"ab"} \/ DOMAIN diff_in[2] = {"b"}))
        => LET out == diff_out.line_changes IN
           /\ Len(out) = Len(TruePositions(diff_in))
           /\ out[1].line_number = diff_in[1].skip + 1

\* the records both implementations are to give for ThreeSegments
ThreeSegmentsRecords ==
    << [type |-> "common", line_number |-> 1, content |-> "a"],
       [type |-> "common", line_number |-> 2, content |-> "b"],
       [type |-> "added", line_number |-> 3, content |-> "c"],
       [type |-> "removed", line_number |-> 3, content |-> "d"] >>

\* C11: for Common(a, b), Added(c), Removed(d) get_file_diff of src/gerrit/api.py
\* and get_file_diff of src/server_direct.py both give common 1 a, common 2 b,
\* added 3 c, removed 3 d, in this order.
C11_ThreeSegmentExample ==
    (diff_in = ThreeSegments /\ ~diff_binary /\ diff_out # NoResult)
        => /\ diff_out.line_changes = ThreeSegmentsRecords
           /\ direct_out.line_changes = ThreeSegmentsRecords

C11_Witness ==
    /\ diff_in = ThreeSegments /\ ~diff_binary
    /\ diff_out # NoResult /\ direct_out # NoResult
    /\ Len(diff_out.line_changes) = 4 /\ Len(direct_out.line_changes) = 4

\* C12: for a diff body flagged binary get_file_diff of src/gerrit/api.py
\* reconstructs nothing: line_changes is empty, is_binary is true and
\* content_type is the body's, whatever the content list holds.
C12_BinaryNotReconstructed ==
    (diff_binary /\ diff_out # NoResult)
        => diff_out = [file_path |-> <<"f">>, is_binary |-> TRUE,
                       content_type |-> DiffBody.content_type,
                       line_changes |-> <<>>]

C12_Witness ==
    /\ diff_binary /\ diff_out # NoResult
    /\ Len(diff_in) = MaxSections /\ "a" \in DOMAIN diff_in[1]
    /\ diff_out.is_binary /\ diff_out.line_changes = <<>>

Answered == pc = "done" /\ task = "done" /\ call.entry # "direct"

\* C14: the status is classified before the body is decoded: 404 gives
\* ResourceNotFoundError with the URL requested, any other status from 400 on
\* gives GerritAPIError with the status and the raw body, and a status below
\* 400 gives neither of the two.
C14_StatusClassified ==
    Answered =>
        /\ response.status = 404 =>
             /\ IsError(result)
             /\ result.error.exc = "ResourceNotFoundError"
             /\ result.error.text = [what |-> "Resource not found",
                                     url |-> requests[1].url]
        /\ (response.status >= 400 /\ response.status # 404) =>
             /\ IsError(result)
             /\ result.error.exc = "GerritAPIError"
             /\ result.error.text = [what |-> "Gerrit API error",
                                     status |-> response.status,
                                     body |-> response.text]
        /\ response.status < 400 =>
             (IsError(result) => result.error.text.what = "Invalid JSON response")

C14_Witness ==
    /\ Answered /\ response.status = 500 /\ response.text = Boom
    /\ result.error.exc = "GerritAPIError"
    /\ result.error.text.status = 500 /\ result.error.text.body = Boom

\* the text with the four characters of the prefix taken off, when it starts
\* with them
WithoutPrefix(t) ==
    IF Len(t) >= 4 /\ SubSeq(t, 1, 4) = Magic THEN SubSeq(t, 5, Len(t)) ELSE t

NotWhitespace(c) == c \notin Whitespace

\* the documents whose JSON text, with white space around it or not, is t
DocumentsOf(t) ==
    { d \in DOMAIN Documents : SelectSeq(t, NotWhitespace) = <<d>> }

\* C15: a body that starts with the prefix is decoded without its first four
\* characters, so a document decodes to the same value with the prefix and
\* without it; a body that is no JSON once the prefix is off ends in
\* GerritAPIError, never in a success.
C15_PrefixStripped ==
    (Answered /\ response.status < 400) =>
        LET docs == DocumentsOf(WithoutPrefix(response.text)) IN
        /\ \A d \in docs : result = ApiResult(call, Documents[d])
        /\ docs = {} =>
             /\ IsError(result)
             /\ result.error.exc = "GerritAPIError"
             /\ result.error.text = [what |-> "Invalid JSON response"]

C15_Witness ==
    /\ Answered /\ response.status = 200 /\ call.tool = "get_commit_info"
    /\ response.text = Magic \o <<"\n", "{commit}">>
    /\ result = [commit |-> "c1", parents |-> <<>>]

\* C16: on a timeout the task is cancelled and awaited before anything is
\* raised: while the cancelled task is awaited nothing has been returned, the
\* timeout error is there only once the task is cancelled (or session.request
\* raised its own timeout), and a call that timed out ends in an error.
C16_TimeoutCancelsThenFails ==
    /\ pc = "cancelling" => (task = "cancelling" /\ result = NoResult)
    /\ task \in CancelOutcomes => (pc = "done" /\ IsError(result))
    /\ (pc = "done" /\ IsError(result) /\ task # "none"
            /\ result.error.text = [what |-> "Request timed out"])
          => task \in {"cancelled", "failed"}

C16_Witness ==
    /\ pc = "done" /\ task = "cancelled" /\ Len(requests) = 1
    /\ result = ErrorResult("Gerrit API error", "GerritAPIError",
                            [what |-> "Request timed out"])

\* C17: no tool lets an exception out: whatever the request layer does, the
\* invocation ends with a value returned, never with an exception raised.
C17_NoExceptionEscapes ==
    pc = "done" => ~IsRaised(result)

\* C18: when the request layer raised during an invocation of a tool of
\* src/mmcp/tools, the result is the error payload that starts with the class
\* name of the exception raised.
C18_ErrorNamesExceptionClass ==
    (pc = "done" /\ call.entry = "tool" /\ task # "none" /\ IsError(result))
        => result = FormatErrorResponse(result.error.exc, result.error.text)

\* the arguments of the invocation are valid ones
ValidArguments ==
    /\ ValidChangeId(call.change_id)
    /\ call.tool \in {"get_file_diff", "create_draft_comment"} => call.file_path # <<>>
    /\ call.tool = "create_draft_comment" => call.message # ""
    /\ call.tool = "set_review" => call.code_review_label \in {-1, -2}

\* C19: a tool registered by src/mmcp/server.py, invoked with valid
\* arguments, issues its request, and when Gerrit answers with a success its
\* result carries no `error` key.
C19_ServerToolsSucceed ==
    (call.entry = "server" /\ pc # "idle" /\ ValidArguments)
        => /\ Len(requests) = 1
           /\ (pc = "done" /\ task = "done" /\ response.status < 400
                 /\ DocumentsOf(WithoutPrefix(response.text)) # {})
               => ~IsError(result)

\* C20: once src/mmcp/server.py has started with the base URL, the username
\* and the token given by arguments or by the environment, the request of a
\* tool invoked with valid arguments is built against that base URL and the
\* tool does not fail for missing credentials.
C20_ConfiguredBaseUsed ==
    (call.entry = "server" /\ pc # "idle" /\ ValidArguments)
        => /\ result # CredentialsMissing
           /\ Len(requests) = 1
           /\ StartsWith(requests[1].url, ServerConfig.GERRIT_URL)

\* the number of lines the sections of `content` carry in ab, a and b
RECURSIVE CountLines(_)
CountLines(content) ==
    IF content = <<>> THEN 0
    ELSE Len(Get(content[1], "ab", <<>>)) + Len(Get(content[1], "a", <<>>))
         + Len(Get(content[1], "b", <<>>)) + CountLines(Tail(content))

\* C27: get_file_diff of src/server_direct.py gives one record for every line
\* of every block's ab, a and b arrays, a block carrying both a and b
\* included: line_changes is as long as the diff content has lines.
C27_OneRecordPerLine ==
    direct_out # NoResult
        => Len(direct_out.line_changes) = CountLines(Get(DiffBody, "content", <<>>))

\* the (type, line_number, content) records of a result
Records(out) ==
    [k \in 1..Len(out.line_changes) |->
        << out.line_changes[k].type, out.line_changes[k].line_number,
           out.line_changes[k].content >>]

\* C28: for every diff content list get_file_diff of src/gerrit/api.py and
\* get_file_diff of src/server_direct.py give the same sequence of
\* (type, line_number, content) records.
C28_ReconstructionsAgree ==
    (diff_out # NoResult /\ direct_out # NoResult /\ ~diff_binary)
        => Records(diff_out) = Records(direct_out)

\* the tool's own tests of the invocation c pass
PreconditionsPass(c) ==
    /\ c.session # NoSession
    /\ c.tool \in {"get_file_diff", "create_draft_comment"} => c.file_path # <<>>
    /\ c.tool = "create_draft_comment" => c.message # ""
    /\ c.tool = "set_review" => c.code_review_label \in {-1, -2}

\* the arguments the caller gave the tool, under the names of the API
\* function's parameters, with the session of the lifespan context
CallerArguments(c) ==
    CASE c.tool = "get_file_diff" ->
            [change_id |-> c.change_id, file_path |-> c.file_path,
             session |-> "gerrit_session"]
      [] c.tool = "create_draft_comment" ->
            [change_id |-> c.change_id, file_path |-> c.file_path,
             message |-> c.message, line |-> Some(c.line),
             session |-> "gerrit_session"]
      [] c.tool = "set_review" ->
            [change_id |-> c.change_id, code_review_label |-> c.code_review_label,
             message |-> c.message, session |-> "gerrit_session"]
      [] OTHER -> [change_id |-> c.change_id, session |-> "gerrit_session"]

\* C21: a tool of src/mmcp/tools whose own tests pass calls its API function
\* exactly once, with the caller's change id, file path, message, line and
\* label and the session of the lifespan context, and returns what the API
\* function returned.
C21_ToolCallsApiOnce ==
    (call.entry = "tool" /\ pc # "idle" /\ PreconditionsPass(call))
        => /\ Len(api_calls) = 1
           /\ api_calls[1].function = call.tool
           /\ api_calls[1].args = CallerArguments(call)
           /\ pc = "done" => result = api_calls[1].returned

\* C22: get_change_detail(change_id, session), with the credentials
\* configured, calls make_gerrit_request exactly once, with the URL
\* {base}/a/changes/{change_id}/detail and the session it was given, and
\* returns the value make_gerrit_request returned.
C22_ChangeDetailOneRequest ==
    (call.entry = "api" /\ call.tool = "get_change_detail" /\ pc # "idle"
        /\ CredentialsPresent(env))
        => /\ Len(made) = 1
           /\ Len(api_calls) = 1
           /\ made[1].url = GetAuthUrl(env) \o <<"/", "a", "/">> \o StrChanges \o Slash
                              \o call.change_id \o Slash \o StrDetail
           /\ made[1].method = "GET"
           /\ made[1].session = call.session
           /\ (pc = "done" /\ ~IsRaised(made[1].outcome))
                 => result = made[1].outcome.value

C22_Witness ==
    /\ call.entry = "api" /\ call.tool = "get_change_detail" /\ pc = "done"
    /\ call.session = "own_session" /\ call.change_id = <<"p", "~", "1">>
    /\ Len(made) = 1 /\ made[1].session = "own_session"
    /\ result = Documents["{commit}"]

\* C23: a tool of src/mmcp/tools that finds no session, an empty file_path
\* (get_file_diff_tool, create_draft_comment_tool) or an empty message
\* (create_draft_comment_tool) returns an error payload, and neither an API
\* function nor make_gerrit_request nor the HTTP session was called.
C23_FailuresBeforeNetwork ==
    (call.entry = "tool" /\ pc # "idle"
        /\ \/ call.session = NoSession
           \/ call.tool \in {"get_file_diff", "create_draft_comment"}
                /\ call.file_path = <<>>
           \/ call.tool = "create_draft_comment" /\ call.message = "")
        => /\ pc = "done"
           /\ IsError(result)
           /\ api_calls = <<>>
           /\ made = <<>>
           /\ requests = <<>>
           /\ task = "none"

C23_Witness ==
    /\ call.entry = "tool" /\ call.tool = "create_draft_comment" /\ pc = "done"
    /\ call.session = "gerrit_session" /\ call.file_path = <<"f">>
    /\ call.message = ""
    /\ result = ErrorResult("", "", "Comment message is required")
    /\ api_calls = <<>> /\ requests = <<>>

\* C30: get_file_list returns {files: F}, F being the file map
\* make_gerrit_request returned without its /COMMIT_MSG entry: every other
\* path is in F with its info, /COMMIT_MSG is not.
C30_FileListWithoutCommitMsg ==
    (call.entry = "tool" /\ call.tool = "get_file_list" /\ pc = "done"
        /\ made # <<>> /\ ~IsRaised(made[1].outcome))
        => LET file_map == made[1].outcome.value IN
           /\ DOMAIN result = {"files"}
           /\ DOMAIN result.files = (DOMAIN file_map) \ {"/COMMIT_MSG"}
           /\ \A p \in DOMAIN result.files : result.files[p] = file_map[p]

C30_Witness ==
    /\ call.entry = "tool" /\ call.tool = "get_file_list" /\ pc = "done"
    /\ made # <<>> /\ ~IsRaised(made[1].outcome)
    /\ DOMAIN made[1].outcome.value = {"/COMMIT_MSG", "f"}
    /\ result = [files |-> [p \in {"f"} |-> [status |-> "M"]]]

\* s[-n:] for 0 < n: the last n characters
Last(s, n) == SubSeq(s, Len(s) - n + 1, Len(s))

EndsWith(s, p) == Len(p) <= Len(s) /\ Last(s, Len(p)) = p

\* what the API function put behind the change id in `url`, built on the
\* base `gerrit_url` for `change_id`
PathSuffix(url, gerrit_url, change_id) ==
    LET head == IF StartsWith(url, gerrit_url \o SlashAChangesSlash)
                THEN gerrit_url \o SlashAChangesSlash
                ELSE gerrit_url \o SlashChangesSlash
    IN  Drop(url, Len(head) + Len(change_id))

\* C29: of the URL an API function gives make_gerrit_request only the
\* authentication segment and the change-id segment are rewritten: the URL
\* handed to session.request is the base URL, /a/changes/, a change-id
\* segment and the path that followed the change id as it was given, a
\* percent-encoded file path included; method and body are the given ones.
C29_OnlyAuthAndChangeIdRewritten ==
    (call.entry \in {"tool", "api"} /\ pc # "idle" /\ made # <<>>)
        => LET given == made[1]
               sent == requests[1]
               base == GetAuthUrl(env)
               suffix == PathSuffix(given.url, base, call.change_id)
           IN  /\ Len(requests) = 1
               /\ StartsWith(sent.url, base \o SlashAChangesSlash)
               /\ EndsWith(sent.url, suffix)
               /\ Len(sent.url) >= Len(base \o SlashAChangesSlash) + Len(suffix)
               /\ sent.method = given.method
               /\ sent.body = given.data

C29_Witness ==
    /\ call.entry = "tool" /\ call.tool = "get_file_diff" /\ pc = "awaiting"
    /\ call.change_id = <<"p", "%", "2", "F", "q", "~", "1">>
    /\ call.file_path = <<"d", "/", "f">>
    /\ made # <<>> /\ requests # <<>>
    /\ made[1].url # requests[1].url
    /\ PathSuffix(made[1].url, GetAuthUrl(env), call.change_id)
         = Slash \o StrRevisionsCurrent \o Slash \o StrFiles
           \o <<"/", "d", "%", "2", "F", "f", "/">> \o StrDiff
    /\ EndsWith(requests[1].url, <<"/", "d", "%", "2", "F", "f", "/">> \o StrDiff)

\* one step of the loop of server_direct's get_file_diff, judged by the
\* record it appended or the skip block it passed
CountersStep ==
    LET appended == Len(walk'.line_changes) = Len(walk.line_changes) + 1
        type == walk'.line_changes[Len(walk'.line_changes)].type
        skipped == /\ walk.block <= Len(diff_in)
                   /\ walk'.block = walk.block + 1
                   /\ DOMAIN diff_in[walk.block] = {"skip"}
                   /\ diff_in[walk.block].skip >= 0
    IN  /\ walk'.line_num_a >= walk.line_num_a
        /\ walk'.line_num_b >= walk.line_num_b
        /\ IF appended
           THEN /\ type \in {"common", "added", "removed"}
                /\ walk'.line_num_a - walk.line_num_a =
                       (IF type \in {"common", "removed"} THEN 1 ELSE 0)
                /\ walk'.line_num_b - walk.line_num_b =
                       (IF type \in {"common", "added"} THEN 1 ELSE 0)
           ELSE IF skipped
           THEN /\ walk'.line_num_a = walk.line_num_a + diff_in[walk.block].skip
                /\ walk'.line_num_b = walk.line_num_b + diff_in[walk.block].skip
           ELSE /\ walk'.line_num_a = walk.line_num_a
                /\ walk'.line_num_b = walk.line_num_b

\* C25: in get_file_diff of src/server_direct.py line_num_a and line_num_b
\* never decrease, and each step of the loop moves them by its kind: a common
\* line both by 1, an added line line_num_b alone by 1, a removed line
\* line_num_a alone by 1, a skip block both by its count.
C25_CountersAdvance == [][CountersStep]_vars

\* the loop ended on a body with a skip, a common, a removed and an added
\* line, with the counters at the sums of their sides
C25_Witness ==
    /\ walk.at = "done"
    /\ diff_in = << [skip |-> 5], [ab |-> <<"l1">>], [a |-> <<"l1", "l2">>] >>
    /\ walk.line_num_a = 8 /\ walk.line_num_b = 6
    /\ walk.line_changes = DirectLineChanges(diff_in)
    /\ direct_out = DirectFileDiffResult(<<"f">>, [content |-> diff_in])

\* C24: gerrit_lifespan creates one session and closes it once: when the
\* lifespan is over, by shutdown, failed validation, validation timeout or an
\* error while serving, the session is closed; close was never called twice;
\* and as long as the context is yielded the session is open.
C24_SessionClosedOnce ==
    /\ life.created <= 1
    /\ life.closes <= 1
    /\ life.closes <= life.created
    /\ (life.at = "yielded" \/ gerrit_session)
          => life.session = "open" /\ life.closes = 0
    /\ (life.at = "exited" /\ life.created = 1)
          => life.session = "closed" /\ life.closes = 1

\* the lifespan is over after a validation that timed out: the handler closed
\* the session and the finally block found it closed
C24_Witness ==
    /\ life.at = "exited" /\ life.validation = TimedOut
    /\ life.created = 1 /\ life.closes = 1 /\ life.session = "closed"
    /\ life.close_ended = "none"

\* C26: the context of gerrit_lifespan is yielded, and a tool runs, only after
\* validate_auth returned True for the session created; when it returned
\* False or AUTH_TIMEOUT passed, the context is never yielded and the
\* lifespan ends raising an error.
C26_YieldOnlyAfterValidation ==
    /\ (life.at = "yielded" \/ gerrit_session \/ life.served > 0)
          => /\ life.validation = [status |-> 200]
             /\ life.created = 1
    /\ (life.at \in {"handler", "finally", "exited"}
          /\ life.validation # NotValidated /\ life.validation # [status |-> 200])
          => /\ ~gerrit_session
             /\ life.served = 0
             /\ life.raising # ""

C26_Witness ==
    /\ life.at = "exited" /\ life.validation = [exception |-> "ClientError"]
    /\ life.raising = "ValueError: Authentication validation failed"
    /\ life.served = 0 /\ ~gerrit_session

====
